---- MODULE Spec2Model ----
(***************************************************************************)
(* Frame sampling of nodes/video_loaders.py: load_video_cv and             *)
(* download_youtube_video open a decoder, process_video_cap plans a stride *)
(* and an output rate and pulls frames by seek/read, and target_size       *)
(* resolves the size the batch is resampled to.                            *)
(*                                                                         *)
(* Representation of the doubles of the code.  start_sec and end_sec are   *)
(* drawn from the multiples of 1/2 second and held as counts of half       *)
(* seconds; such values, their differences and their products by a small   *)
(* integer are exact in IEEE-754 binary64.  Frame positions (start_frame,  *)
(* curr_frame, end_frame) are held as counts of half frames.  The only     *)
(* inexact operations are the divisions frame_count / fps (line 82) and    *)
(* step / max_fps (line 94); what the rounding of those quotients does to  *)
(* int(...) and to >= is computed by QuotErr and DevSign below.            *)
(***************************************************************************)
EXTENDS Integers, Sequences, FiniteSets, TLC

\* ------------------------------------------------------------------ bounds
\* requests of the whole load: times 0..MaxSec half seconds, caps 0..MaxCap,
\* max_fps -1..MaxRate; videos: fps 0..MaxFps, frame_count 0..MaxFrames
MaxSec == 2
MaxCap == 2
MaxRate == 1
MaxFps == 3
MaxFrames == 4
\* requests of the planner alone (PlanSpec)
PlanMaxSec == 4
PlanMaxCap == 3
PlanMaxRate == 4
PlanMaxFps == 7
PlanMaxFrames == 12
\* source sizes of the resize stage alone (SizeSpec)
MaxDim == 20

\* line 79: the cap that stands for "unbounded"
UnboundedCap == 999999

Max(a, b) == IF a >= b THEN a ELSE b

\* ------------------------------------------------- IEEE-754 double rounding
RECURSIVE Pow2(_)
Pow2(n) == IF n = 0 THEN 1 ELSE 2 * Pow2(n - 1)

RECURSIVE BinExpUp(_, _)
BinExpUp(a, b) == IF a >= 2 * b THEN 1 + BinExpUp(a, 2 * b) ELSE 0

RECURSIVE BinExpDown(_, _)
BinExpDown(a, b) == IF a < b THEN BinExpDown(2 * a, b) - 1 ELSE 0

\* the binary exponent k of the quotient a / b (a, b >= 1): 2^k <= a/b < 2^(k+1)
BinExp(a, b) == IF a >= b THEN BinExpUp(a, b) ELSE BinExpDown(a, b)

RECURSIVE ShiftMod(_, _, _)
ShiftMod(r, e, b) == IF e = 0 THEN r ELSE ShiftMod((2 * r) % b, e - 1, b)

\* The double a / b (a, b >= 1) is M * 2^(k-52) with k = BinExp(a, b) and M the
\* integer nearest to a * 2^(52-k) / b.  QuotErr is M * b - a * 2^(52-k), so
\*     a / b  (double)  =  a / b  (exact)  +  QuotErr(a, b) / b * 2^(k-52).
\* (No tie arises: it would need 2^(53-k) to divide b.)
QuotErr(a, b) ==
    LET rho == ShiftMod(a % b, 52 - BinExp(a, b), b)
    IN  IF 2 * rho < b THEN 0 - rho ELSE b - rho

\* x * 2^p <= 2^q, for x >= 1
LeqPow2(x, p, q) == IF p > q THEN FALSE ELSE x <= Pow2(q - p)

\* The side on which the double nearest to N + d * 2^(k-52) lies of the integer
\* N >= 1 (-1 below, 0 equal, 1 above), for |d| * 2^(k-52) below the spacing of
\* the doubles at N.  The doubles just above N are 2^(e-52) apart, e = BinExp(N, 1),
\* the ones just below N as well, or 2^(e-53) apart when N = 2^e; a value at most
\* half a spacing away rounds to N (whose significand is even).
DevSign(d, k, N) ==
    LET e == BinExp(N, 1)
        below == IF Pow2(e) = N THEN e - 1 ELSE e
    IN  IF d = 0 THEN 0
        ELSE IF d > 0 THEN (IF LeqPow2(d, k + 1, e) THEN 0 ELSE 1)
        ELSE (IF LeqPow2(0 - d, k + 1, below) THEN 0 ELSE 0 - 1)

\* int(x) of the double x = n / 2: truncation toward zero
TruncHalf(n) == IF n >= 0 THEN n \div 2 ELSE 0 - ((0 - n) \div 2)

\* int(a / b * n) for integers a, b, n >= 1 (line 94: the quotient is rounded,
\* then the product): the floor of a*n/b, or one less when a*n/b is an integer
\* and the rounded product falls just below it.
IntQuotTimes(a, b, n) ==
    IF (a * n) % b # 0 THEN (a * n) \div b
    ELSE LET N == (a * n) \div b
             d == (QuotErr(a, b) * n) \div b
         IN  IF DevSign(d, BinExp(a, b), N) < 0 THEN N - 1 ELSE N

\* ------------------------------------------------- process_video_cap: plan
\* int(video_cap.get(prop)) for a property the decoder reports as v halves
IntProp(v) == TruncHalf(v)

\* lines 78-79
effective_cap(cap) == IF cap = 0 \/ cap <= 0 THEN UnboundedCap ELSE cap

\* lines 81-86: int((end_sec - start_sec) * fps), end_sec being frame_count / fps
\* when the request gives 0.  With an explicit end_sec every operation is exact.
\* With end_sec = frame_count / fps and start_sec within the stream, the
\* difference is exact and the product is window + QuotErr * 2^(k-52) for the
\* integer or half-integer window = frame_count - start_sec * fps.  With
\* start_sec beyond the stream the double is negative, within one of the exact
\* window, and line 88 maps every value <= 0 to the same step.
original_frame_length(rate, count, start, end) ==
    IF end # 0 THEN TruncHalf((end - start) * rate)
    ELSE LET window == 2 * count - start * rate
         IN  IF window <= 0 \/ window % 2 = 1 THEN TruncHalf(window)
             ELSE IF DevSign(QuotErr(count, rate), BinExp(count, rate), window \div 2) < 0
                  THEN (window \div 2) - 1
                  ELSE window \div 2

\* line 88
raw_step(length, cap) == Max(length \div cap, 1)

\* line 91 with the comparison against new_fps turned round
clamp_applies_below(rate_cap, rate) == rate_cap # 0 /\ 0 < rate_cap /\ rate < rate_cap

\* line 91
clamp_applies(rate_cap, rate) == rate_cap # 0 /\ 0 < rate_cap /\ rate_cap < rate

\* lines 88-95: [step, new_fps]
stride_and_rate(rate, length, cap, rate_cap) ==
    LET step0 == raw_step(length, cap)
        fps0 == rate \div step0
    IN  IF clamp_applies(rate_cap, fps0)
        THEN [step |-> IntQuotTimes(step0, rate_cap, fps0), new_fps |-> rate_cap]
        ELSE [step |-> step0, new_fps |-> fps0]

\* line 98: fps * start_sec, in half frames
start_frame_of(rate, start) == rate * start

\* lines 81-82, 99: fps * end_sec as [h |-> half frames, d |-> side].  With
\* end_sec = frame_count / fps the product is the double nearest to
\* frame_count + QuotErr * 2^(k-52): frame_count itself or a neighbour of it.
end_frame_of(rate, count, end) ==
    IF end # 0 THEN [h |-> rate * end, d |-> 0]
    ELSE IF count = 0 THEN [h |-> 0, d |-> 0]
    ELSE [h |-> 2 * count,
          d |-> DevSign(QuotErr(count, rate), BinExp(count, rate), count)]

\* line 126 with > for >=
reached_end_strict(curr, end) == curr > end.h \/ (curr = end.h /\ end.d < 0)

\* line 126: curr_frame >= end_frame
reached_end(curr, end) == curr > end.h \/ (curr = end.h /\ end.d <= 0)

\* ------------------------------------------------------------ target_size
\* force_size strings are held as tuples of their characters
Disabled == <<"D", "i", "s", "a", "b", "l", "e", "d">>

RECURSIVE SplitFrom(_, _, _)
SplitFrom(s, sep, piece) ==
    IF s = <<>> THEN <<piece>>
    ELSE IF Head(s) = sep THEN <<piece>> \o SplitFrom(Tail(s), sep, <<>>)
    ELSE SplitFrom(Tail(s), sep, Append(piece, Head(s)))

\* line 41: str.split
split(s, sep) == SplitFrom(s, sep, <<>>)

DigitValue(c) ==
    CASE c = "0" -> 0 [] c = "1" -> 1 [] c = "2" -> 2 [] c = "3" -> 3 [] c = "4" -> 4
      [] c = "5" -> 5 [] c = "6" -> 6 [] c = "7" -> 7 [] c = "8" -> 8 [] c = "9" -> 9

RECURSIVE IntFrom(_, _)
IntFrom(s, acc) == IF s = <<>> THEN acc ELSE IntFrom(Tail(s), 10 * acc + DigitValue(Head(s)))

\* lines 43-54: int() of a string of decimal digits
int_of(s) == IntFrom(s, 0)

\* lines 46, 50 without the + 4: rounds down
align8_down(x) == x - (x % 8)

\* lines 46, 50: int(x)+4 & ~7 (+ binds tighter than &); x & ~7 clears the low three bits
align8(x) == (x + 4) - ((x + 4) % 8)

\* lines 43, 49: the divisions of target_size raise ZeroDivisionError on a zero divisor
target_size_raises(w, h, size) ==
    /\ size # Disabled
    /\ LET parts == split(size, "x")
       IN  IF parts[1] = <<"?">> THEN h = 0
           ELSE IF parts[2] = <<"?">> THEN w = 0
           ELSE FALSE

\* lines 39-55
target_size(w, h, size) ==
    IF size # Disabled
    THEN LET parts == split(size, "x")
         IN  IF parts[1] = <<"?">>
             THEN <<align8((w * int_of(parts[2])) \div h), int_of(parts[2])>>
             ELSE IF parts[2] = <<"?">>
             THEN <<int_of(parts[1]), align8((h * int_of(parts[1])) \div w)>>
             ELSE <<int_of(parts[1]), int_of(parts[2])>>
    ELSE <<w, h>>

\* ------------------------------------------------------------------ state
VARIABLES
    pc,              \* where the call stands: idle, open, plan, loop, finally, post, done
    loader,          \* the entry point called
    start_sec,       \* request, half seconds
    end_sec,         \* request, half seconds (0: to the end)
    frame_load_cap,  \* request; reassigned by line 79
    max_fps,         \* request
    force_size,      \* request
    video,           \* what the locator names, as the decoder reports it
    video_cap,       \* the handle: None, closed (constructed, not opened), opened, released
    fps, width, height, frame_count,           \* lines 74-76
    step, new_fps, end_frame,                  \* lines 88-99
    curr_frame, frames_added, images,          \* lines 101-129
    exc,             \* the exception propagating through the finally block, or None
    log,             \* the calls made on the decoder handle, in order
    upscales,        \* the calls of common_upscale, in order
    result           \* what the call returned or raised

request == <<loader, start_sec, end_sec, max_fps, force_size>>
meta == <<fps, width, height, frame_count>>
plan == <<step, new_fps, end_frame>>
vars == <<pc, loader, start_sec, end_sec, frame_load_cap, max_fps, force_size, video,
          video_cap, fps, width, height, frame_count, step, new_fps, end_frame,
          curr_frame, frames_added, images, exc, log, upscales, result>>

Loaders == {"load_video_cv", "download_youtube_video"}

Digit == <<"0", "1", "2", "3", "4", "5", "6", "7", "8", "9">>
Wild == <<"?">>
RECURSIVE Decimal(_)
\* the decimal string of n >= 0
Decimal(n) == IF n < 10 THEN <<Digit[n + 1]>> ELSE Append(Decimal(n \div 10), Digit[(n % 10) + 1])
SizeString(a, b) == a \o <<"x">> \o b

\* force_size values offered to the whole load: the shapes of line 22 at small sizes
Sizes == {Disabled, SizeString(Wild, Decimal(8)), SizeString(Decimal(16), Wild),
          SizeString(Decimal(16), Decimal(8))}
\* frame sizes a decoder may report (0: a property the backend does not know)
Dims == {<<16, 8>>, <<8, 8>>, <<0, 8>>, <<8, 0>>}

\* a handle that did not open reports 0.0 for every property
ClosedVideo == [opened |-> FALSE, fps |-> 0, frame_count |-> 0, width |-> 0, height |-> 0]
\* fps is reported as a double (halves here: 1.5 is a rate), the rest as whole numbers
VideoOf(rate, count, dim) ==
    [opened |-> TRUE, fps |-> rate, frame_count |-> count, width |-> dim[1], height |-> dim[2]]
Videos ==
    {ClosedVideo} \cup
    {VideoOf(r, c, d) : r \in 0..(2 * MaxFps + 1), c \in 0..MaxFrames, d \in Dims}

NoResult == [kind |-> "none", error |-> "None", images |-> <<>>, size |-> <<0, 0>>,
             frame_count |-> 0, fps |-> 0, width |-> 0, height |-> 0]
Raised(e) == [NoResult EXCEPT !.kind = "raised", !.error = e]

Seek(i) == [op |-> "seek", arg |-> i]
Read == [op |-> "read", arg |-> 0]
Release == [op |-> "release", arg |-> 0]

Init ==
    /\ pc = "idle"
    /\ loader = "load_video_cv" /\ start_sec = 0 /\ end_sec = 0 /\ frame_load_cap = 0
    /\ max_fps = 0 /\ force_size = Disabled
    /\ video = ClosedVideo /\ video_cap = "None"
    /\ fps = 0 /\ width = 0 /\ height = 0 /\ frame_count = 0
    /\ step = 0 /\ new_fps = 0 /\ end_frame = [h |-> 0, d |-> 0]
    /\ curr_frame = 0 /\ frames_added = 0 /\ images = <<>>
    /\ exc = "None" /\ log = <<>> /\ upscales = <<>> /\ result = NoResult

\* ---------------------------------------------------------------- actions
\* load_video_cv(...) / download_youtube_video(...) is called: lines 148, 212
Call ==
    /\ pc = "idle"
    /\ loader' \in Loaders
    /\ start_sec' \in 0..MaxSec
    /\ end_sec' \in 0..MaxSec
    /\ frame_load_cap' \in 0..MaxCap
    /\ max_fps' \in (0 - 1)..MaxRate
    /\ force_size' \in Sizes
    /\ pc' = "open"
    /\ UNCHANGED <<video, video_cap, meta, plan, curr_frame, frames_added, images, exc,
                   log, upscales, result>>

\* load_video_cv, lines 150-152
OpenFile ==
    /\ pc = "open" /\ loader = "load_video_cv"
    /\ video' \in Videos
    /\ IF video'.opened
       THEN video_cap' = "opened" /\ exc' = "None" /\ pc' = "plan"
       ELSE video_cap' = "closed" /\ exc' = "ValueError" /\ pc' = "finally"
    /\ UNCHANGED <<request, frame_load_cap, meta, plan, curr_frame, frames_added, images,
                   log, upscales, result>>

\* download_youtube_video, lines 215-220: the download raises, or a handle is made
\* of the downloaded file and used whether it opened or not
OpenDownload ==
    /\ pc = "open" /\ loader = "download_youtube_video"
    /\ \/ /\ exc' = "DownloadError" /\ pc' = "finally"
          /\ UNCHANGED <<video, video_cap>>
       \/ /\ video' \in Videos
          /\ video_cap' = IF video'.opened THEN "opened" ELSE "closed"
          /\ exc' = "None" /\ pc' = "plan"
    /\ UNCHANGED <<request, frame_load_cap, meta, plan, curr_frame, frames_added, images,
                   log, upscales, result>>

\* process_video_cap, lines 74-106
Plan ==
    /\ pc = "plan"
    /\ fps' = IntProp(video.fps)
    /\ width' = video.width /\ height' = video.height
    /\ frame_count' = video.frame_count
    /\ frame_load_cap' = effective_cap(frame_load_cap)
    /\ IF end_sec = 0 /\ fps' = 0
       THEN /\ exc' = "ZeroDivisionError" /\ pc' = "finally"
            /\ UNCHANGED <<plan, curr_frame>>
       ELSE LET length == original_frame_length(fps', frame_count', start_sec, end_sec)
                sr == stride_and_rate(fps', length, frame_load_cap', max_fps)
            IN  /\ step' = sr.step /\ new_fps' = sr.new_fps
                /\ end_frame' = end_frame_of(fps', frame_count', end_sec)
                /\ curr_frame' = start_frame_of(fps', start_sec)
                /\ pc' = "loop" /\ exc' = "None"
    /\ frames_added' = 0 /\ images' = <<>>
    /\ UNCHANGED <<request, video, video_cap, log, upscales, result>>

\* what video_cap.read() and frame_to_tensor can do at one position: a frame, the
\* end of the stream (ret False), or a frame whose conversion raises
ReadOutcomes == IF video_cap = "opened" THEN {"frame", "end", "bad_frame"} ELSE {"end"}

\* line 124 with > for >=
cap_passed(cap, added) == cap > 0 /\ added > cap

\* line 124
cap_reached(cap, added) == cap > 0 /\ added >= cap

\* process_video_cap, one turn of the loop: lines 108-129
Iterate ==
    /\ pc = "loop"
    /\ LET int_curr_frame == TruncHalf(curr_frame)
       IN  \E ret \in ReadOutcomes :
             /\ log' = log \o <<Seek(int_curr_frame), Read>>
             /\ IF ret = "end"
                THEN pc' = "finally" /\ UNCHANGED <<images, frames_added, curr_frame, exc>>
                ELSE IF ret = "bad_frame"
                THEN /\ pc' = "finally" /\ exc' = "ConversionError"
                     /\ UNCHANGED <<images, frames_added, curr_frame>>
                ELSE /\ images' = Append(images, int_curr_frame)
                     /\ frames_added' = frames_added + 1
                     /\ exc' = exc
                     /\ IF cap_reached(frame_load_cap, frames_added')
                           \/ reached_end(curr_frame, end_frame)
                        THEN pc' = "finally" /\ curr_frame' = curr_frame
                        ELSE pc' = "loop" /\ curr_frame' = curr_frame + 2 * step
    /\ UNCHANGED <<request, frame_load_cap, video, video_cap, meta, plan, upscales, result>>

\* lines 156, 225: the handle object is truthy once constructed
must_release(handle) == handle # "None"

\* the release placed after the try statement instead of in its finally block
FinallyAfterTry ==
    /\ pc = "finally"
    /\ IF must_release(video_cap) /\ exc = "None"
       THEN video_cap' = "released" /\ log' = Append(log, Release)
       ELSE UNCHANGED <<video_cap, log>>
    /\ IF exc # "None"
       THEN pc' = "done" /\ result' = Raised(exc)
       ELSE pc' = "post" /\ result' = result
    /\ UNCHANGED <<request, frame_load_cap, video, meta, plan, curr_frame, frames_added,
                   images, exc, upscales>>

\* the finally blocks, lines 155-157 and 223-226; a pending exception then leaves
\* the call
Finally ==
    /\ pc = "finally"
    /\ IF must_release(video_cap)
       THEN video_cap' = "released" /\ log' = Append(log, Release)
       ELSE UNCHANGED <<video_cap, log>>
    /\ IF exc # "None"
       THEN pc' = "done" /\ result' = Raised(exc)
       ELSE pc' = "post" /\ result' = result
    /\ UNCHANGED <<request, frame_load_cap, video, meta, plan, curr_frame, frames_added,
                   images, exc, upscales>>

\* lines 161-164 without the comparison of line 164
must_resize_always(w, h, size) == size # Disabled

\* lines 161-164, 232-234
must_resize(w, h, size) ==
    size # Disabled /\ (target_size(w, h, size)[1] # w \/ target_size(w, h, size)[2] # h)

\* lines 158, 228 left out (the state of the code the TODO of line 170 describes)
no_frames_ignored(batch) == FALSE

\* lines 158, 228
no_frames(batch) == Len(batch) = 0

\* lines 158-176 and 228-242
Finish ==
    /\ pc = "post"
    /\ pc' = "done"
    /\ IF no_frames(images)
       THEN result' = Raised("RuntimeError") /\ UNCHANGED <<width, height, upscales>>
       ELSE IF target_size_raises(width, height, force_size)
       THEN result' = Raised("ZeroDivisionError") /\ UNCHANGED <<width, height, upscales>>
       ELSE LET new_size == target_size(width, height, force_size)
            IN  /\ IF must_resize(width, height, force_size)
                   THEN /\ upscales' = Append(upscales,
                               [frames |-> images, width |-> new_size[1],
                                height |-> new_size[2], method |-> "lanczos",
                                crop |-> "center"])
                        /\ width' = new_size[1] /\ height' = new_size[2]
                   ELSE UNCHANGED <<width, height, upscales>>
                /\ result' = [kind |-> "returned", error |-> "None", images |-> images,
                              size |-> IF must_resize(width, height, force_size)
                                       THEN new_size ELSE <<width, height>>,
                              frame_count |-> frames_added, fps |-> new_fps,
                              width |-> width', height |-> height']
    /\ UNCHANGED <<request, frame_load_cap, video, video_cap, fps, frame_count, plan,
                   curr_frame, frames_added, images, exc, log>>

Next == Call \/ OpenFile \/ OpenDownload \/ Plan \/ Iterate \/ Finally \/ Finish

\* the whole load, from the call to its return or raise
Spec == Init /\ [][Next]_vars

\* ------------------------------------------------- the planner on its own
\* the clip of the worked example: 30 fps, 300 frames
ExampleVideo == VideoOf(60, 300, <<16, 8>>)
PlanVideos ==
    {VideoOf(r, c, <<16, 8>>) : r \in 0..(2 * PlanMaxFps + 1), c \in 0..PlanMaxFrames}

\* process_video_cap entered by load_video_cv (line 153) on an opened handle
PlanInit ==
    /\ pc = "plan" /\ loader = "load_video_cv" /\ force_size = Disabled
    /\ \/ /\ video \in PlanVideos
          /\ start_sec \in 0..PlanMaxSec /\ end_sec \in 0..PlanMaxSec
          /\ frame_load_cap \in 0..PlanMaxCap
          /\ max_fps \in (0 - 1)..PlanMaxRate
       \/ /\ video = ExampleVideo
          /\ start_sec = 0 /\ end_sec = 0 /\ frame_load_cap = 50
          /\ max_fps \in {0 - 1, 3}
    /\ video_cap = "opened"
    /\ fps = 0 /\ width = 0 /\ height = 0 /\ frame_count = 0
    /\ step = 0 /\ new_fps = 0 /\ end_frame = [h |-> 0, d |-> 0]
    /\ curr_frame = 0 /\ frames_added = 0 /\ images = <<>>
    /\ exc = "None" /\ log = <<>> /\ upscales = <<>> /\ result = NoResult

PlanSpec == PlanInit /\ [][Plan]_vars

\* ---------------------------------------------- the resize stage on its own
Axis == {8, 100, 256}
SizeSpecs ==
    {Disabled}
    \cup {SizeString(Wild, Decimal(a)) : a \in Axis}
    \cup {SizeString(Decimal(a), Wild) : a \in Axis}
    \cup {SizeString(Decimal(a), Decimal(b)) : a \in Axis, b \in Axis}
SourceDims == ((0..MaxDim) \X (0..MaxDim)) \cup {<<101, 50>>, <<100, 50>>}

\* the state in which load_video_cv / download_youtube_video reaches line 158 / 228
\* after one frame of a one-frame clip was acquired under a cap of 1
SizeInit ==
    /\ pc = "post" /\ loader \in Loaders
    /\ start_sec = 0 /\ end_sec = 0 /\ frame_load_cap = 1 /\ max_fps = 0 - 1
    /\ force_size \in SizeSpecs
    /\ \E d \in SourceDims : video = VideoOf(2, 1, d)
    /\ video_cap = "released"
    /\ fps = 1 /\ width = video.width /\ height = video.height /\ frame_count = 1
    /\ step = 1 /\ new_fps = 1 /\ end_frame = [h |-> 2, d |-> 0]
    /\ curr_frame = 0 /\ frames_added = 1 /\ images = <<0>>
    /\ exc = "None" /\ log = <<Seek(0), Read, Release>> /\ upscales = <<>>
    /\ result = NoResult

SizeSpec == SizeInit /\ [][Finish]_vars

\* ------------------------------------------------------------------ claims
Seeks == SelectSeq(log, LAMBDA e : e.op = "seek")
Releases == {i \in 1..Len(log) : log[i].op = "release"}
\* start_frame + (k-1) * step, the position of the k-th turn of the loop, half frames
Position(k) == fps * start_sec + 2 * (k - 1) * step
\* p < end_frame
BelowEnd(p) == p < end_frame.h \/ (p = end_frame.h /\ end_frame.d > 0)

\* C1: for every source with fps >= 1 and every request, the plan has step >= 1,
\* output_fps >= 1 and output_fps <= fps.
C1_PlanBounds == (pc = "loop" /\ fps >= 1) => (step >= 1 /\ new_fps >= 1 /\ new_fps <= fps)

\* C2: a request whose end_sec is non-zero and below start_sec fails with
\* InvalidWindow, and no frame is sought, read or returned for it.
C2_InvalidWindowRejected ==
    (end_sec # 0 /\ end_sec < start_sec /\ video.opened /\ IntProp(video.fps) >= 1) =>
        /\ \A i \in 1..Len(log) : log[i].op \notin {"seek", "read"}
        /\ pc = "done" => (result.kind = "raised" /\ result.error = "InvalidWindow")

C4_ReleasedExactlyOnce ==
    /\ Cardinality(Releases) <= 1
    /\ \A i \in Releases : \A j \in (i + 1)..Len(log) : log[j].op \notin {"seek", "read"}
    /\ pc \in {"post", "done"} =>
           \/ video_cap = "None" /\ loader = "download_youtube_video"
              /\ exc = "DownloadError" /\ log = <<>>
           \/ video_cap = "released" /\ Cardinality(Releases) = 1
    /\ video_cap = "released" <=> Releases # {}

\* an exception leaves the loop after a frame was appended, and the handle is released
C4_Witness ==
    /\ pc = "done" /\ exc = "ConversionError" /\ Len(images) >= 1
    /\ video_cap = "released" /\ result.kind = "raised"

\* C5: a load that returns gives a frame_count equal to the number of frames of
\* the batch, at least 1 and at most frame_load_cap.
C5_FrameCountWithinCap ==
    result.kind = "returned" =>
        /\ result.frame_count = Len(result.images)
        /\ 1 <= result.frame_count /\ result.frame_count <= frame_load_cap

\* the cap of 2 ends the loop
C5_Witness ==
    /\ result.kind = "returned" /\ result.frame_count = 2 /\ frame_load_cap = 2
    /\ Len(Seeks) = 2

\* C6: for a source of at least 1 x 1, a wildcard axis resolves to the multiple
\* of 8 nearest to the scaled other axis (ties up), ((scaled + 4) & ~7), the
\* explicit axis is returned verbatim, and two explicit axes are both returned
\* verbatim; (101, 50) under "?x100" gives (200, 100).
C6_TargetSize ==
    (pc = "done" /\ video.width >= 1 /\ video.height >= 1 /\ force_size # Disabled) =>
        /\ result.kind = "returned"
        /\ \A a \in Axis :
             /\ force_size = SizeString(Wild, Decimal(a)) =>
                    LET scaled == (video.width * a) \div video.height
                    IN  /\ result.height = a
                        /\ result.width = 8 * ((scaled + 4) \div 8)
                        /\ scaled - 4 < result.width /\ result.width <= scaled + 4
             /\ force_size = SizeString(Decimal(a), Wild) =>
                    LET scaled == (video.height * a) \div video.width
                    IN  /\ result.width = a
                        /\ result.height = 8 * ((scaled + 4) \div 8)
                        /\ scaled - 4 < result.height /\ result.height <= scaled + 4
             /\ \A b \in Axis :
                    force_size = SizeString(Decimal(a), Decimal(b)) =>
                        result.width = a /\ result.height = b
        /\ (video.width = 101 /\ video.height = 50
            /\ force_size = <<"?", "x", "1", "0", "0">>) =>
               (result.width = 200 /\ result.height = 100)

\* the worked example: 202 is rounded down to 200
C6_Witness ==
    /\ pc = "done" /\ video.width = 101 /\ video.height = 50
    /\ force_size = <<"?", "x", "1", "0", "0">>
    /\ result.kind = "returned" /\ result.width = 200 /\ result.height = 100

\* C7: common_upscale is called exactly when force_size is not Disabled and the
\* resolved size differs from the source size, then once, on the whole batch, and
\* the returned width and height are the resolved size; otherwise it is not called
\* and the batch, width and height are returned as acquired.
C7_ResampleIffDifferent ==
    /\ result.kind # "returned" => upscales = <<>>
    /\ result.kind = "returned" =>
           LET size == target_size(video.width, video.height, force_size)
           IN  IF force_size # Disabled /\ size # <<video.width, video.height>>
               THEN /\ upscales = <<[frames |-> images, width |-> size[1],
                                     height |-> size[2], method |-> "lanczos",
                                     crop |-> "center"]>>
                    /\ result.width = size[1] /\ result.height = size[2]
                    /\ result.size = size /\ result.images = images
               ELSE /\ upscales = <<>>
                    /\ result.width = video.width /\ result.height = video.height
                    /\ result.size = <<video.width, video.height>>
                    /\ result.images = images

\* a resize is requested and the batch is already at the resolved size
C7_Witness ==
    /\ result.kind = "returned" /\ force_size # Disabled /\ upscales = <<>>
    /\ result.width = 16 /\ result.height = 8

\* C8: when a resize is requested and the source width or height is zero, the
\* load fails with DegenerateSourceSize for every shape of force_size, before any
\* division and before the resampler is called.
C8_DegenerateSourceRejected ==
    (pc = "done" /\ exc = "None" /\ Len(images) >= 1 /\ force_size # Disabled
     /\ (video.width <= 0 \/ video.height <= 0)) =>
        /\ result.kind = "raised" /\ result.error = "DegenerateSourceSize"
        /\ upscales = <<>>

\* C9: for fps >= 1 and a window whose end is not before its start, with
\* step0 = max(int((end_sec - start_sec) * fps) // cap, 1) and fps0 = fps // step0:
\* if 0 < max_fps < fps0 the output rate is max_fps and the stride is
\* int(step0 / max_fps * fps0) >= step0, otherwise they are fps0 and step0; the
\* plan never raises; 30 fps, 300 frames, cap 50 give step 6 and rate 5, and
\* rate 3 under max_fps = 3.
C9_OutputRate ==
    /\ (pc # "plan" /\ fps >= 1) => (pc = "loop" /\ exc = "None")
    /\ (pc = "loop" /\ fps >= 1
        /\ (IF end_sec # 0 THEN end_sec >= start_sec
            ELSE 2 * frame_count >= start_sec * fps)) =>
           LET length == original_frame_length(fps, frame_count, start_sec, end_sec)
               step0 == Max(length \div frame_load_cap, 1)
               fps0 == fps \div step0
           IN  IF 0 < max_fps /\ max_fps < fps0
               THEN /\ new_fps = max_fps
                    /\ step = IntQuotTimes(step0, max_fps, fps0)
                    /\ step >= step0
               ELSE new_fps = fps0 /\ step = step0
    /\ (pc = "loop" /\ video = ExampleVideo /\ start_sec = 0 /\ end_sec = 0
        /\ frame_load_cap = 50) =>
           IF max_fps = 3 THEN new_fps = 3
           ELSE max_fps = 0 - 1 => (step = 6 /\ new_fps = 5)

\* the clamp of the worked example
C9_Witness ==
    /\ pc = "loop" /\ video = ExampleVideo /\ frame_load_cap = 50 /\ max_fps = 3
    /\ new_fps = 3 /\ step = 10

\* C10: the k-th seek targets int(start_frame + k * step), k = 0, 1, ...; sought
\* positions do not decrease; the frames are appended in the order sought; every
\* appended frame but possibly the last lies strictly below end_frame; and once
\* the counter has reached the cap or a frame at or past end_frame was appended,
\* nothing more is sought or read.
C10_SeekOrder ==
    /\ \A k \in 1..Len(Seeks) : Seeks[k].arg = Position(k) \div 2
    /\ \A k \in 1..(Len(Seeks) - 1) : Seeks[k].arg <= Seeks[k + 1].arg
    /\ Len(images) <= Len(Seeks) /\ Len(Seeks) <= Len(images) + 1
    /\ \A i \in 1..Len(images) : images[i] = Seeks[i].arg
    /\ \A i \in 1..(Len(images) - 1) : BelowEnd(Position(i))
    /\ Cardinality({i \in 1..Len(images) : ~BelowEnd(Position(i))}) <= 1
    /\ (Len(images) >= 1
        /\ (Len(images) >= frame_load_cap \/ ~BelowEnd(Position(Len(images))))) =>
           (pc # "loop" /\ Len(Seeks) = Len(images))

\* three frames two apart, the last one at end_frame
C10_Witness ==
    /\ pc = "done" /\ step = 2 /\ Len(images) = 3 /\ Len(Seeks) = 3
    /\ ~BelowEnd(Position(3)) /\ result.kind = "returned"

====
